---- MODULE Spec2Model ----
(***************************************************************************)
(* A model of Meta_Probability.py: the descriptor-validated random         *)
(* variable RV (fields elements and probabilities), its inverse-CDF        *)
(* sampler next_num, and the two histogram aggregators generator_ (batch)  *)
(* and generator (lazy, over generator_next).                              *)
(*                                                                         *)
(* Numbers that the program holds as floats are kept on a grid of 1e-5:    *)
(* a probability p is the integer p * 100000.  Python objects are records  *)
(* tagged with their type, so that isinstance and str act on the tag.      *)
(***************************************************************************)
EXTENDS Integers, Sequences, FiniteSets, TLC

\* ------------------------------------------------------------------ bounds
\* longest list handed to a field
MaxLen == 2
\* largest sample size n handed to an aggregator
MaxN == 2

\* --------------------------------------------------------- program numbers
\* 1.0 in grid units (the literal 1.0 of the probability check)
One == 100000
\* 0.0001 in grid units (the epsilon of the probability check)
Epsilon == 10

\* ---------------------------------------------------------- Python values
IntV(k) == [ty |-> "int", val |-> k]
FltV(u) == [ty |-> "float", val |-> u]
StrV == [ty |-> "str", val |-> 0]

\* the value None of a field that was never set
NoList == [ty |-> "none", items |-> << >>]
NoProbs == [ty |-> "none", items |-> << >>, round |-> 0]
NoItem == [ty |-> "unbound", val |-> 0]

Abs(x) == IF x < 0 THEN -x ELSE x
Min(a, b) == IF a < b THEN a ELSE b

SeqsUpTo(S, k) == UNION {[1..m -> S] : m \in 0..k}

RECURSIVE SumVals(_)
SumVals(s) == IF s = << >> THEN 0 ELSE s[1].val + SumVals(Tail(s))

RECURSIVE SumCounts(_, _)
SumCounts(d, keys) ==
    IF keys = {} THEN 0
    ELSE LET k == CHOOSE x \in keys : TRUE
         IN d[k] + SumCounts(d, keys \ {k})

\* ------------------------------------------------------------------ inputs
\* outcomes a caller may put in a list: two integers and the float 2.5
ElemVals == {IntV(1), IntV(2), FltV(250000)}
\* what a caller may hand to RV.elements: lists over ElemVals, the
\* single-outcome list [5], and one value that is not a list (a tuple)
ElementInputs ==
    {[ty |-> "list", items |-> s] : s \in SeqsUpTo(ElemVals, MaxLen)}
        \cup {[ty |-> "list", items |-> <<IntV(5)>>], [ty |-> "tuple", items |-> <<IntV(1)>>]}

\* probabilities a caller may put in a list: 0, 0.5, 0.99991 (just inside
\* the accepted band), 1.0, 1.0001 (the upper edge of the band) and 1.00011
\* (just outside)
ProbVals ==
    {FltV(0), FltV(50000), FltV(One - Epsilon + 1), FltV(One), FltV(One + Epsilon),
     FltV(One + Epsilon + 1)}

Numeric(s) == \A k \in 1..Len(s) : s[k].ty \in {"int", "float"}
\* the decimal sum of the list lies exactly on an edge of the accepted band
OnEdge(s) == Numeric(s) /\ Abs(SumVals(s) - One) = Epsilon

\* what a caller may hand to RV.probabilities: lists over ProbVals, one
\* list holding a string and one value that is not a list.  The float sum
\* of a list differs from its decimal sum by a rounding error far below the grid;
\* round is the sign of that error.  It is a property of the list (summing
\* the same list twice rounds the same way), and is recorded only where it
\* can decide the comparison: a decimal sum exactly on an edge is not a
\* double, so there the error is never 0.
ProbabilityInputs ==
    {v \in [ty : {"list"}, items : SeqsUpTo(ProbVals, MaxLen), round : {-1, 0, 1}] :
        (v.round = 0) = ~OnEdge(v.items)}
        \cup {[ty |-> "tuple", items |-> <<FltV(One)>>, round |-> 0],
              [ty |-> "list", items |-> <<StrV>>, round |-> 0]}

\* values uniform(0, 1) may return, in grid units: 0.0, 0.5, 0.99995
RVals == {0, 50000, 99995}

\* ------------------------------------------------------------------- state
VARIABLES
    constructed,    \* an RV object exists (its __init__ returned)
    elements,       \* inst.__dict__['elements']
    probabilities,  \* inst.__dict__['probabilities']
    l_elem,         \* inst.l_elem
    l_prob,         \* inst.l_prob
    last,           \* the last field operation and how it ended
    pc,             \* where the sampling driver stands
    n,              \* the sample size of the current runs
    tape,           \* the values the random source returned to the batch run
    rpos,           \* how many random values the current run has consumed
    i,              \* the loop counter of range(n) in the current run
    dict_,          \* the histogram being built by the current run
    drawn,          \* the outcomes the current run has counted, in order
    elem,           \* the value the lazy generator has yielded and that waits to be counted
    batch,          \* how generator_ ended
    lazy            \* how generator ended

rv == <<constructed, elements, probabilities, l_elem, l_prob>>
run == <<pc, n, tape, rpos, i, dict_, drawn, elem, batch, lazy>>
vars == <<constructed, elements, probabilities, l_elem, l_prob, last,
          pc, n, tape, rpos, i, dict_, drawn, elem, batch, lazy>>

\* ------------------------------------------------------ descriptor setters
\* what a __set__ call does: raise (nothing is stored) or store a value
Raise(msg) == [raised |-> msg, stored |-> NoList]

\* a descriptor that stores the list reversed instead of the value itself
Descriptor_set_reversed(value) ==
    [raised |-> "",
     stored |-> [value EXCEPT !.items = [k \in 1..Len(value.items) |->
                                            value.items[Len(value.items) + 1 - k]]]]

\* Descriptor_.__set__: instance.__dict__[self.name] = value
Descriptor_set(value) == [raised |-> "", stored |-> value]

\* an _Integers.__set__ that lets any number through, floats included
Integers_set_numbers(value) ==
    IF \E k \in 1..Len(value.items) : value.items[k].ty \notin {"int", "float"}
    THEN Raise("TypeError: The List passed must consist of all Integer Values.")
    ELSE [raised |-> "", stored |-> value]

\* _Integers.__set__: every element must be an instance of int
Integers_set(value) ==
    IF \E k \in 1..Len(value.items) : value.items[k].ty # "int"
    THEN Raise("TypeError: The List passed must consist of all Integer Values.")
    ELSE Descriptor_set(value)

\* List_Integers_.__set__ resolves to TypeChecked.__set__ with ty = list,
\* whose super().__set__ is _Integers.__set__
List_Integers_set(value) ==
    IF value.ty # "list"
    THEN Raise("TypeError: Expected list for field.")
    ELSE Integers_set(value)

\* sum(value) over the floats of the list, in half grid units, with the
\* sign of its rounding error
FloatSum2(value) == 2 * SumVals(value.items) + value.round

\* a _Probabilities.__set__ that leaves out the abs: _sum - 1.0 < 0.0001
Probabilities_set_noabs(value) ==
    IF ~Numeric(value.items)
    THEN Raise("TypeError: unsupported operand type(s) for +")
    ELSE IF 2 * SumVals(value.items) + value.round - 2 * One < 2 * Epsilon
         THEN [raised |-> "", stored |-> value]
         ELSE Raise("ValueError: Must be within Epsilon of 1.0.")

\* _Probabilities.__set__: sum(value) raises TypeError on a non-number and
\* the error is re-raised; else abs(_sum - 1.0) < 0.0001 decides
Probabilities_set(value) ==
    IF ~Numeric(value.items)
    THEN Raise("TypeError: unsupported operand type(s) for +")
    ELSE IF Abs(FloatSum2(value) - 2 * One) < 2 * Epsilon
         THEN Descriptor_set(value)
         ELSE Raise("ValueError: Must be within Epsilon of 1.0.")

\* List_Probabilities.__set__ resolves to TypeChecked.__set__ with ty = list,
\* whose super().__set__ is _Probabilities.__set__
List_Probabilities_set(value) ==
    IF value.ty # "list"
    THEN Raise("TypeError: Expected list for field.")
    ELSE Probabilities_set(value)

\* ----------------------------------------------------------------- sampler
\* zip(a, b): pairs up to the shorter of the two
Zip(a, b) == [k \in 1..Min(Len(a), Len(b)) |-> <<a[k], b[k]>>]

ShapeMismatch == "ValueError: Expecting to map each element to a probability."

\* a list_tuple without the length check
list_tuple_unchecked ==
    [raised |-> "", list_ |-> Zip(elements.items, probabilities.items)]

\* RandomGen.list_tuple: compares the lengths recorded by __init__
list_tuple ==
    IF l_elem = l_prob
    THEN [raised |-> "", list_ |-> Zip(elements.items, probabilities.items)]
    ELSE [raised |-> ShapeMismatch, list_ |-> << >>]

\* the for loop of next_num from its k-th pair on, with the running cdf
RECURSIVE Scan(_, _, _, _)
Scan(list_, k, cdf, r) ==
    IF k > Len(list_)
    THEN \* the loop ended without a return: return item, the last one bound
         IF Len(list_) = 0
         THEN [raised |-> "UnboundLocalError", item |-> NoItem]
         ELSE [raised |-> "", item |-> list_[Len(list_)][1]]
    ELSE LET c == cdf + list_[k][2].val
         IN IF c >= r
            THEN [raised |-> "", item |-> list_[k][1]]
            ELSE Scan(list_, k + 1, c, r)

\* a next_num whose loop compares with cdf > r instead of cdf >= r
RECURSIVE ScanStrict(_, _, _, _)
ScanStrict(list_, k, cdf, r) ==
    IF k > Len(list_)
    THEN IF Len(list_) = 0
         THEN [raised |-> "UnboundLocalError", item |-> NoItem]
         ELSE [raised |-> "", item |-> list_[Len(list_)][1]]
    ELSE LET c == cdf + list_[k][2].val
         IN IF c > r
            THEN [raised |-> "", item |-> list_[k][1]]
            ELSE ScanStrict(list_, k + 1, c, r)

next_num_strict(list_, r) == ScanStrict(list_, 1, 0, r)

\* RandomGen.next_num once list_tuple has returned list_ and uniform(0, 1)
\* has returned r
next_num(list_, r) == Scan(list_, 1, 0, r)

\* str(x) of an outcome; the outcomes of a stored list are ints, whose
\* str is their decimal numeral
Str(x) == IF x.ty = "int" THEN ToString(x.val) ELSE x.ty

\* a histogram seeded only from the outcomes that are paired with a probability
ZeroDict_paired ==
    [k \in {Str(elements.items[j]) :
                j \in 1..Min(Len(elements.items), Len(probabilities.items))} |-> 0]

\* keys = [str(_) for _ in data.get_elements()];
\* dict_ = dict(zip(keys, [0 for _ in keys]))
ZeroDict == [k \in {Str(elements.items[j]) : j \in 1..Len(elements.items)} |-> 0]

\* ------------------------------------------------------------ initial state
\* how a field operation ended, with what is needed of the arguments ev
\* (outcomes) and pv (probabilities) it was called with: their types and
\* lengths, whether the outcomes were all ints, whether the probabilities
\* were all numbers, their decimal sum and its rounding sign.  An assignment
\* to probabilities records none of this (NoProbs).
Outcome(op, raised, calls, reval, ev, pv) ==
    [op |-> op, raised |-> raised, calls |-> calls, reval |-> reval,
     ety |-> ev.ty, eints |-> \A k \in 1..Len(ev.items) : ev.items[k].ty = "int",
     elen |-> Len(ev.items),
     pty |-> pv.ty, pnum |-> Numeric(pv.items), plen |-> Len(pv.items),
     psum |-> IF Numeric(pv.items) THEN SumVals(pv.items) ELSE 0, pround |-> pv.round]

NoOp == Outcome("none", "", << >>, FALSE, NoList, NoProbs)
NoRes == [status |-> "none", raised |-> "", hist |-> << >>, drawn |-> << >>, used |-> 0]

\* no sampling run is under way
Idle ==
    /\ pc' = "idle"
    /\ n' = 0
    /\ tape' = << >>
    /\ rpos' = 0
    /\ i' = 0
    /\ dict_' = << >>
    /\ drawn' = << >>
    /\ elem' = NoItem
    /\ batch' = NoRes
    /\ lazy' = NoRes

Init ==
    /\ constructed = FALSE
    /\ elements = NoList
    /\ probabilities = NoProbs
    /\ l_elem = 0
    /\ l_prob = 0
    /\ last = NoOp
    /\ pc = "idle"
    /\ n = 0
    /\ tape = << >>
    /\ rpos = 0
    /\ i = 0
    /\ dict_ = << >>
    /\ drawn = << >>
    /\ elem = NoItem
    /\ batch = NoRes
    /\ lazy = NoRes

\* ------------------------------------------------------- field operations
\* RV(elements, probabilities): RandomGen.__init__.  The two assignments go
\* through the descriptors; an exception leaves no object behind.  The model
\* follows one object: once it exists, only assignments change it.
Construct(ev, pv) ==
    /\ ~constructed
    /\ pc = "idle"
    /\ last = NoOp
    /\ LET e == List_Integers_set(ev)
           p == List_Probabilities_set(pv)
       IN IF e.raised # ""
          THEN /\ last' = Outcome("construct", e.raised, <<"elements">>, FALSE, ev, pv)
               /\ UNCHANGED rv
          ELSE IF p.raised # ""
          THEN /\ last' = Outcome("construct", p.raised, <<"elements", "probabilities">>,
                                   FALSE, ev, pv)
               /\ UNCHANGED rv
          ELSE /\ last' = Outcome("construct", "", <<"elements", "probabilities">>,
                                   FALSE, ev, pv)
               /\ constructed' = TRUE
               /\ elements' = e.stored
               /\ probabilities' = p.stored
               /\ l_elem' = Len(ev.items)
               /\ l_prob' = Len(pv.items)
    /\ Idle

\* inst.elements = value, outside a sampling run
SetElements(value) ==
    /\ constructed
    /\ pc = "idle"
    /\ last = NoOp
    /\ LET e == List_Integers_set(value)
       IN /\ last' = Outcome("set_elements", e.raised, <<"elements">>,
                              value = elements, value, NoProbs)
          /\ elements' = IF e.raised = "" THEN e.stored ELSE elements
    /\ UNCHANGED <<constructed, probabilities, l_elem, l_prob>>
    /\ Idle

\* inst.probabilities = value, outside a sampling run
SetProbabilities(value) ==
    /\ constructed
    /\ pc = "idle"
    /\ last = NoOp
    /\ LET p == List_Probabilities_set(value)
       IN /\ last' = Outcome("set_probabilities", p.raised, <<"probabilities">>,
                              value = probabilities, NoList, NoProbs)
          /\ probabilities' = IF p.raised = "" THEN p.stored ELSE probabilities
    /\ UNCHANGED <<constructed, elements, l_elem, l_prob>>
    /\ Idle

\* the caller has seen how the last field operation ended (a raised
\* exception has propagated to it) and goes on
Observe ==
    /\ last # NoOp
    /\ last' = NoOp
    /\ UNCHANGED <<rv, run>>

\* ----------------------------------------------------------- batch sampling
Returned(h, d, u) == [status |-> "returned", raised |-> "", hist |-> h, drawn |-> d, used |-> u]
Raised(msg, h, d, u) == [status |-> "raised", raised |-> msg, hist |-> h, drawn |-> d, used |-> u]

\* a count that assigns 1 instead of adding 1
Increment_assign(d, output) == [d EXCEPT ![Str(output)] = 1]

\* dict_[str(output)] += 1
Increment(d, output) == [d EXCEPT ![Str(output)] = @ + 1]

\* generator_(n, data) is called with the random source freshly seeded:
\* keys and dict_ are built
StartBatch(nn) ==
    /\ constructed
    /\ pc = "idle"
    /\ pc' = "batch"
    /\ n' = nn
    /\ tape' = << >>
    /\ rpos' = 0
    /\ i' = 0
    /\ dict_' = ZeroDict
    /\ drawn' = << >>
    /\ elem' = NoItem
    /\ batch' = NoRes
    /\ lazy' = NoRes
    /\ last' = NoOp
    /\ UNCHANGED rv

\* one pass of `for i in range(n)` in generator_: next_num, then the count
BatchDraw(r) ==
    /\ pc = "batch"
    /\ i < n
    /\ LET lt == list_tuple
           res == next_num(lt.list_, r)
       IN IF lt.raised # ""
          THEN /\ batch' = Raised(lt.raised, dict_, drawn, rpos)
               /\ pc' = "between"
               /\ UNCHANGED <<tape, rpos, i, dict_, drawn>>
          ELSE /\ tape' = Append(tape, r)
               /\ rpos' = rpos + 1
               /\ IF res.raised # ""
                  THEN /\ batch' = Raised(res.raised, dict_, drawn, rpos + 1)
                       /\ pc' = "between"
                       /\ UNCHANGED <<i, dict_, drawn>>
                  ELSE IF Str(res.item) \notin DOMAIN dict_
                  THEN /\ batch' = Raised("KeyError", dict_, drawn, rpos + 1)
                       /\ pc' = "between"
                       /\ UNCHANGED <<i, dict_, drawn>>
                  ELSE /\ dict_' = Increment(dict_, res.item)
                       /\ drawn' = Append(drawn, res.item)
                       /\ i' = i + 1
                       /\ UNCHANGED <<batch, pc>>
    /\ UNCHANGED <<rv, last, n, elem, lazy>>

\* range(n) is exhausted: return dict_
BatchReturn ==
    /\ pc = "batch"
    /\ i = n
    /\ batch' = Returned(dict_, drawn, rpos)
    /\ pc' = "between"
    /\ UNCHANGED <<rv, last, n, tape, rpos, i, dict_, drawn, elem, lazy>>

\* ------------------------------------------------------------ lazy sampling
\* generator(n, data) is called with the random source seeded as it was for
\* the batch run: keys and dict_ are built and generator_next(n) creates the
\* generator object, whose body has not started
StartLazy ==
    /\ pc = "between"
    /\ pc' = "lazy"
    /\ rpos' = 0
    /\ i' = 0
    /\ dict_' = ZeroDict
    /\ drawn' = << >>
    /\ elem' = NoItem
    /\ UNCHANGED <<rv, last, n, tape, batch, lazy>>

\* the value the random source returns to the lazy run at its next call:
\* the one it returned to the batch run at the same position, if any
NextRandom == IF rpos < Len(tape) THEN {tape[rpos + 1]} ELSE RVals

\* a generator_next whose pass draws one random value too many: the value r
\* is thrown away and next_num gets the one after it
generator_next_skip(r) ==
    /\ pc = "lazy"
    /\ elem = NoItem
    /\ i < n
    /\ r \in NextRandom
    /\ \E r2 \in (IF rpos + 1 < Len(tape) THEN {tape[rpos + 2]} ELSE RVals) :
         LET lt == list_tuple
             res == next_num(lt.list_, r2)
         IN IF lt.raised # ""
            THEN /\ lazy' = Raised(lt.raised, dict_, drawn, rpos)
                 /\ pc' = "done"
                 /\ UNCHANGED <<rpos, i, elem>>
            ELSE /\ rpos' = rpos + 2
                 /\ IF res.raised # ""
                    THEN /\ lazy' = Raised(res.raised, dict_, drawn, rpos + 2)
                         /\ pc' = "done"
                         /\ UNCHANGED <<i, elem>>
                    ELSE /\ elem' = res.item
                         /\ i' = i + 1
                         /\ UNCHANGED <<lazy, pc>>
    /\ UNCHANGED <<rv, last, n, tape, dict_, drawn, batch>>

\* `for elem in nums` asks for the next value and generator_next runs one
\* pass of `for i in range(n)`: yield self.next_num()
generator_next(r) ==
    /\ pc = "lazy"
    /\ elem = NoItem
    /\ i < n
    /\ r \in NextRandom
    /\ LET lt == list_tuple
           res == next_num(lt.list_, r)
       IN IF lt.raised # ""
          THEN /\ lazy' = Raised(lt.raised, dict_, drawn, rpos)
               /\ pc' = "done"
               /\ UNCHANGED <<rpos, i, elem>>
          ELSE /\ rpos' = rpos + 1
               /\ IF res.raised # ""
                  THEN /\ lazy' = Raised(res.raised, dict_, drawn, rpos + 1)
                       /\ pc' = "done"
                       /\ UNCHANGED <<i, elem>>
                  ELSE /\ elem' = res.item
                       /\ i' = i + 1
                       /\ UNCHANGED <<lazy, pc>>
    /\ UNCHANGED <<rv, last, n, tape, dict_, drawn, batch>>

\* the body of `for elem in nums`: dict_[str(elem)] += 1
LazyCount ==
    /\ pc = "lazy"
    /\ elem # NoItem
    /\ IF Str(elem) \notin DOMAIN dict_
       THEN /\ lazy' = Raised("KeyError", dict_, drawn, rpos)
            /\ pc' = "done"
            /\ UNCHANGED <<dict_, drawn, elem>>
       ELSE /\ dict_' = Increment(dict_, elem)
            /\ drawn' = Append(drawn, elem)
            /\ elem' = NoItem
            /\ UNCHANGED <<lazy, pc>>
    /\ UNCHANGED <<rv, last, n, tape, rpos, i, batch>>

\* range(n) is exhausted in generator_next, the for loop ends: return dict_
LazyReturn ==
    /\ pc = "lazy"
    /\ elem = NoItem
    /\ i = n
    /\ lazy' = Returned(dict_, drawn, rpos)
    /\ pc' = "done"
    /\ UNCHANGED <<rv, last, n, tape, rpos, i, dict_, drawn, elem, batch>>

\* both runs have ended and the driver drops their results
EndRuns ==
    /\ pc = "done"
    /\ Idle
    /\ UNCHANGED <<rv, last>>

\* ------------------------------------------------------------ specification
Next ==
    \/ /\ ~constructed /\ pc = "idle" /\ last = NoOp
       /\ \E ev \in ElementInputs, pv \in ProbabilityInputs : Construct(ev, pv)
    \/ /\ constructed /\ pc = "idle" /\ last = NoOp
       /\ \E value \in ElementInputs : SetElements(value)
    \/ /\ constructed /\ pc = "idle" /\ last = NoOp
       /\ \E value \in ProbabilityInputs : SetProbabilities(value)
    \/ Observe
    \/ /\ constructed /\ pc = "idle"
       /\ \E nn \in 0..MaxN : StartBatch(nn)
    \/ /\ pc = "batch"
       /\ \E r \in RVals : BatchDraw(r)
    \/ BatchReturn
    \/ StartLazy
    \/ /\ pc = "lazy"
       /\ \E r \in NextRandom : generator_next(r)
    \/ LazyCount
    \/ LazyReturn
    \/ EndRuns

Spec == Init /\ [][Next]_vars

\* ------------------------------------------------------------------ claims
\* the sum of the counts of a histogram
Total(h) == SumCounts(h, DOMAIN h)
\* the values of a sequence
Range(s) == {s[k] : k \in 1..Len(s)}
\* the stored lists
E == elements.items
P == probabilities.items
\* the cumulative probability of the first k outcomes
Prefix(k) == SumVals(SubSeq(P, 1, k))
\* the first position whose cumulative probability reaches r, if there is one
Reaching(r) == {k \in 1..Len(P) : Prefix(k) >= r}
First(r) == CHOOSE k \in Reaching(r) : \A j \in Reaching(r) : k <= j
\* the position the sampler is to pick for r: the first that reaches r, else the last
FirstOrLast(r) == IF Reaching(r) # {} THEN First(r) ELSE Len(P)
\* the probability assigned to the outcome x, over all its positions
RECURSIVE AssignedFrom(_, _)
AssignedFrom(x, k) ==
    IF k > Min(Len(E), Len(P)) THEN 0
    ELSE (IF E[k] = x THEN P[k].val ELSE 0) + AssignedFrom(x, k + 1)
AssignedProb(x) == AssignedFrom(x, 1)
\* the keys a histogram of the stored outcomes is to have
Keys == {ToString(E[j].val) : j \in 1..Len(E)}
EpsilonError == "ValueError: Must be within Epsilon of 1.0."
ElementErrors ==
    {"TypeError: Expected list for field.",
     "TypeError: The List passed must consist of all Integer Values."}
\* the last operation was RV(ev, pv) with a list of ints and a list of numbers
NumericConstruct ==
    /\ last.op = "construct"
    /\ last.ety = "list" /\ last.eints
    /\ last.pty = "list" /\ last.pnum

C2_ShapeEnforced ==
    (constructed /\ Len(E) # Len(P)) => list_tuple.raised = ShapeMismatch

\* C3: for an RV whose stored outcomes and probabilities have equal length
\* and every r, next_num returns the first outcome whose cumulative
\* probability is >= r, or the last outcome if there is none: every draw
\* ends with an outcome.
C3_FirstOrLast ==
    (constructed /\ Len(E) = Len(P)) =>
        /\ list_tuple.raised = ""
        /\ \A r \in RVals :
              next_num(list_tuple.list_, r) = [raised |-> "", item |-> E[FirstOrLast(r)]]

\* What holds of next_num in place of C3: the same, for an RV whose lengths
\* as recorded by __init__ (l_elem, l_prob) are equal too.
C3_WhenRecordedLengthsAgree ==
    (constructed /\ Len(E) = Len(P) /\ l_elem = l_prob) =>
        /\ list_tuple.raised = ""
        /\ \A r \in RVals :
              next_num(list_tuple.list_, r) = [raised |-> "", item |-> E[FirstOrLast(r)]]

\* C4: with the same RV and the same values from the random source, the
\* lazy run counts the same outcomes in the same order as the batch run,
\* consumes the same random values and ends the same way with the same
\* histogram.
C4_SameDraws ==
    /\ pc = "lazy" =>
          /\ rpos <= Len(tape)
          /\ Len(drawn) <= Len(batch.drawn)
          /\ drawn = SubSeq(batch.drawn, 1, Len(drawn))
          /\ elem # NoItem => /\ Len(drawn) < Len(batch.drawn)
                              /\ elem = batch.drawn[Len(drawn) + 1]
    /\ pc = "done" =>
          /\ lazy.status = batch.status
          /\ lazy.raised = batch.raised
          /\ lazy.drawn = batch.drawn
          /\ lazy.hist = batch.hist
          /\ lazy.used = batch.used

C4_Witness ==
    /\ pc = "done"
    /\ lazy.status = "returned"
    /\ n = 2
    /\ lazy.drawn[1] # lazy.drawn[2]
    /\ tape[1] > tape[2]

\* C5 (as amended): RV(ev, pv) with a list of ints and a list of numbers
\* succeeds iff abs(sum(pv) - 1.0) < 0.0001 holds of the float sum, and fails
\* with the probability ValueError otherwise.  On the 1e-5 grid: a decimal
\* sum less than 0.0001 away from 1.0 is accepted, one more than 0.0001 away
\* (1.00011) is rejected, and one exactly 0.0001 away (1.0001) is rejected
\* unless the float sum rounded towards 1.0.  The probabilities an RV
\* holds, set by the constructor or by an assignment, are always in the band.
C5_BandDecides ==
    /\ NumericConstruct =>
          LET d == Abs(last.psum - One)
              inward == \/ last.psum > One /\ last.pround < 0
                        \/ last.psum < One /\ last.pround > 0
          IN /\ last.raised \in {"", EpsilonError}
             /\ (last.raised = "") = constructed
             /\ d < Epsilon => last.raised = ""
             /\ d > Epsilon => last.raised = EpsilonError
             /\ d = Epsilon => ((last.raised = "") = inward)
    /\ constructed =>
          \/ Abs(SumVals(P) - One) < Epsilon
          \/ /\ Abs(SumVals(P) - One) = Epsilon
             /\ (SumVals(P) > One) = (probabilities.round < 0)

C5_Witness ==
    /\ NumericConstruct
    /\ last.psum = One + Epsilon
    /\ last.plen = 2
    /\ last.raised = EpsilonError

\* C5 (as stated): RV(ev, pv) with a list of ints and a list of numbers
\* succeeds iff abs(sum - 1.0) < 1e-4 in exact arithmetic on the grid; a sum
\* of exactly 1.0001 is accepted and a sum of 1.00011 is rejected.
C5_Original ==
    NumericConstruct =>
        /\ (last.raised = "") = (Abs(last.psum - One) < Epsilon)
        /\ last.raised # "" => last.raised = EpsilonError
        /\ last.psum = One + Epsilon => last.raised = ""
        /\ last.psum = One + Epsilon + 1 => last.raised = EpsilonError

\* every counter of a histogram is 0
AllZero(h) == \A k \in DOMAIN h : h[k] = 0
\* a run that has ended did so on the shape mismatch, before any draw
FailedOnShape(res) ==
    /\ res.status = "raised"
    /\ res.raised = ShapeMismatch
    /\ res.used = 0
    /\ res.drawn = << >>
    /\ AllZero(res.hist)

\* C6 (as amended): for outcomes [1, 2] and probabilities [0.5] the
\* construction itself fails, with the probability ValueError, and no
\* object exists to sample from.  When the lengths differ and the
\* probabilities pass the sum check (outcomes [1, 2], probabilities [1.0])
\* the construction succeeds, and a sample of size n >= 1 then fails with
\* the shape-mismatch ValueError of list_tuple before any random value is
\* drawn and before any counter is incremented.
C6_MismatchFails ==
    /\ (NumericConstruct /\ last.elen = 2 /\ last.plen = 1 /\ last.psum = 50000) =>
          /\ last.raised = EpsilonError
          /\ ~constructed
          /\ pc = "idle"
    /\ (NumericConstruct /\ last.elen # last.plen /\ last.raised = "") =>
          /\ constructed
          /\ l_elem = last.elen /\ l_prob = last.plen
    /\ (constructed /\ l_elem # l_prob) =>
          /\ pc \in {"batch", "lazy"} => rpos = 0 /\ drawn = << >> /\ AllZero(dict_)
          /\ (batch.status # "none" /\ n >= 1) => FailedOnShape(batch)
          /\ (lazy.status # "none" /\ n >= 1) => FailedOnShape(lazy)

C6_Witness ==
    /\ constructed
    /\ l_elem = 2 /\ l_prob = 1
    /\ E = <<IntV(1), IntV(2)>>
    /\ P = <<FltV(One)>>
    /\ pc = "done"
    /\ n >= 1
    /\ FailedOnShape(batch) /\ FailedOnShape(lazy)

\* C6 (as stated): for outcomes [1, 2] and probabilities [0.5] no
\* validation error other than the shape mismatch of list_tuple ends the
\* run: the construction does not raise, and the sample then fails on the
\* shape mismatch before any draw.
C6_Original ==
    /\ (NumericConstruct /\ last.elen = 2 /\ last.plen = 1 /\ last.psum = 50000) =>
          last.raised = ""
    /\ (constructed /\ l_elem # l_prob) =>
          /\ (batch.status # "none" /\ n >= 1) => FailedOnShape(batch)
          /\ (lazy.status # "none" /\ n >= 1) => FailedOnShape(lazy)

\* the last operation handed RV.elements something that is not a list of ints
BadElements ==
    /\ last.op \in {"construct", "set_elements"}
    /\ last.ety # "list" \/ ~last.eints

\* C7: the stored outcomes of an RV are always a list of ints.  Handing
\* RV.elements a non-list or a list with a non-int (such as [1, 2.5]), in
\* the constructor or in an assignment, raises TypeError in the elements
\* setter, the only setter entered: nothing is stored, a construction
\* leaves no object, and no sampling run is under way.
C7_IntegersOnly ==
    /\ [](constructed =>
             /\ elements.ty = "list"
             /\ \A k \in 1..Len(E) : E[k].ty = "int")
    /\ [](BadElements =>
             /\ last.raised \in ElementErrors
             /\ last.calls = <<"elements">>
             /\ last.op = "construct" => ~constructed
             /\ pc = "idle" /\ rpos = 0 /\ drawn = << >>)
    /\ [][(BadElements)' => (elements' = elements /\ constructed' = constructed)]_vars

C7_Witness ==
    /\ constructed
    /\ last.op = "set_elements"
    /\ last.ety = "list" /\ ~last.eints /\ last.elen = 2
    /\ last.raised = "TypeError: The List passed must consist of all Integer Values."

\* the histogram h has exactly the stored outcomes as keys, and a zero for
\* every outcome that is not among the counted ones
KeysKept(h, counted) ==
    /\ DOMAIN h = Keys
    /\ \A j \in 1..Len(E) : E[j] \notin Range(counted) => h[ToString(E[j].val)] = 0

\* C8: in both modes, from before the first draw until the return, the
\* keys of the histogram are exactly the stringified stored outcomes: all
\* are there with count 0 before any draw, an outcome never drawn stays at
\* 0, sampling adds and removes no key, and the key of a drawn value is
\* always there (no KeyError).
C8_KeysAreOutcomes ==
    /\ pc \in {"batch", "lazy"} =>
          /\ KeysKept(dict_, drawn)
          /\ drawn = << >> => AllZero(dict_)
          /\ elem # NoItem => ToString(elem.val) \in DOMAIN dict_
    /\ batch.status # "none" =>
          /\ KeysKept(batch.hist, batch.drawn)
          /\ batch.raised # "KeyError"
    /\ lazy.status # "none" =>
          /\ KeysKept(lazy.hist, lazy.drawn)
          /\ lazy.raised # "KeyError"

C8_Witness ==
    /\ pc = "done"
    /\ batch.status = "returned" /\ lazy.status = "returned"
    /\ n = 2
    /\ Cardinality(DOMAIN lazy.hist) = 2
    /\ \E k \in DOMAIN lazy.hist : lazy.hist[k] = 0
    /\ Len(E) # Len(P)

\* C9: assigning to a field of a constructed RV the value it holds never
\* raises and leaves both stored values as they were.
C9_Idempotent ==
    [][(last.reval)' =>
          /\ (last.raised)' = ""
          /\ constructed /\ constructed'
          /\ elements' = elements
          /\ probabilities' = probabilities]_vars

C9_Witness ==
    /\ last.reval
    /\ last.op = "set_probabilities"
    /\ Len(P) = 2
    /\ SumVals(P) = One + Epsilon

\* the sampler can be asked for an outcome: the stored lengths agree and
\* list_tuple returns the pairing
CanDraw == constructed /\ Len(E) = Len(P) /\ list_tuple.raised = ""

\* C10 (as amended): for an RV with equal-length outcomes and probabilities
\* and every r with 0 < r <= sum(probabilities), next_num returns the
\* outcome at the first position whose cumulative probability reaches r,
\* and the probability at that position is greater than 0.  (At r = 0 a
\* leading outcome of probability 0 is returned, and for r above the sum
\* the last outcome is returned whatever its probability.)
C10_PositiveWhenInRange ==
    /\ CanDraw =>
          \A r \in RVals :
             (0 < r /\ r <= SumVals(P)) =>
                 /\ Reaching(r) # {}
                 /\ next_num(list_tuple.list_, r) = [raised |-> "", item |-> E[First(r)]]
                 /\ P[First(r)].val > 0
    /\ (CanDraw /\ pc = "batch") =>
          \A k \in 1..Len(drawn) :
             (0 < tape[k] /\ tape[k] <= SumVals(P)) =>
                 /\ drawn[k] = E[First(tape[k])]
                 /\ AssignedProb(drawn[k]) > 0

C10_Witness ==
    /\ CanDraw
    /\ pc = "batch"
    /\ P[1].val = 0
    /\ Len(drawn) = 2
    /\ tape[1] > 0 /\ tape[1] <= SumVals(P)
    /\ drawn[1] = E[2] /\ E[2] # E[1]

\* C10 (as stated): for an RV with equal-length outcomes and probabilities
\* and every r in [0, 1), next_num never returns an outcome whose assigned
\* probability is 0.
C10_Original ==
    CanDraw =>
        \A r \in RVals :
           LET res == next_num(list_tuple.list_, r)
           IN res.raised = "" => AssignedProb(res.item) # 0

====
